---- MODULE Spec2Model ----
(***************************************************************************)
(* A model of custom_components/vivint/hub.py: the VivintHub session       *)
(* wrapper (login, verify_mfa, disconnect, the coordinator's update        *)
(* function) run by several tasks of one cooperative event loop, the       *)
(* capability helpers, and the entity base classes: their device-registry  *)
(* records and their subscription to the devices' UPDATE notifications.    *)
(*                                                                         *)
(* One step of the model is one run of a coroutine between two suspension  *)
(* points: Python executes everything between two awaits that really       *)
(* suspend without interleaving.  The vendor Account object, the aiohttp   *)
(* session and the teardown callback are the environment: each awaited     *)
(* call either returns or raises, chosen nondeterministically.             *)
(***************************************************************************)
EXTENDS Integers, Sequences, FiniteSets, TLC

\* ------------------------------------------------------------------ bounds
\* Number of tasks that may call into the hub concurrently.
NProcs == 2
\* Number of Account objects login may construct in one behaviour.
MaxHandles == 2
\* Number of hub calls (login, verify_mfa, disconnect, polling tick) started
\* in one behaviour.
MaxCalls == 3
\* Number of device objects of the vendor's device tree.
MaxDevices == 3
\* Number of capability categories, capabilities and features of the vendor's
\* enumerations.
MaxCategories == 2
MaxCapabilities == 2
MaxFeatures == 1
\* Number of attribute changes the vendor library applies to the devices, and
\* number of UPDATE notifications it emits, in one behaviour.
MaxChanges == 1
MaxNotifications == 2

Procs == 1..NProcs
Handles == 1..MaxHandles
\* Python's None, for the account reference and the lock owner.
None == 0

\* --------------------------------------------------------------- exceptions
\* What Account.connect can raise, by class.
ConnectErrors ==
  {"MfaRequired", "Authentication", "ApiError",
   "ClientResponseError", "ClientConnectorError", "Other"}
\* What the other awaited calls (verify_mfa, disconnect, close, refresh) and
\* the teardown callback can raise.
EnvErrors == {"ApiError", "Other"}

VARIABLES
  logged_in,       \* VivintHub.logged_in
  account,         \* VivintHub.account: None or the current Account object
  created,         \* number of Account objects constructed so far
  connected,       \* Account.connected, per Account object
  authed,          \* history: connect or verify_mfa has returned on the object
  session_closed,  \* VivintHub.session.closed
  undo_listener,   \* VivintHub.__undo_listener is set (TRUE) or None (FALSE)
  lock_owner,      \* VivintHub._lock: the task holding it, or None
  waiters,         \* VivintHub._lock: FIFO queue of tasks waiting for it
  pc,              \* per task: where its current call is suspended
  hnd,             \* per task: the Account object its awaited call runs on
  pre,             \* per task: logged_in when its verify_mfa call started
  ovl,             \* per task: a login or verify_mfa call overlapped this call
                   \* (for a login or verify_mfa call: or a save_session call)
  second,          \* per task: outcome of the disconnect call directly before this one
  acts,            \* per task: what its disconnect call has invoked so far
  entry,           \* per task: logged_in and the account reference when its
                   \* disconnect call started, and whether save_session was
                   \* called since
  discCalls,       \* history: Account.disconnect invocations per object
  closeCalls,      \* history: session.close invocations
  undoCalls,       \* history: teardown callback invocations
  calls,           \* history: hub calls started so far
  ev,              \* the call that ended in the last step, if any
  devices,         \* the vendor's device objects, by object identity
  ent,             \* the entity constructed last, if any
  idq,             \* the last get_device_id call and its result, if any
  listeners,       \* per device object: the entity's UPDATE callbacks on it
  eev,             \* the last UPDATE notification or name read, if any
  changes,         \* history: device attribute changes so far
  notes,           \* history: UPDATE notifications emitted so far
  capdev,          \* the device handed to has_capability and has_feature
  capq             \* the last has_capability/has_feature call and its result

hubvars == <<logged_in, account, created, connected, authed, session_closed,
             undo_listener>>
lockvars == <<lock_owner, waiters>>
taskvars == <<pc, hnd, pre, ovl, second, acts, entry>>
histvars == <<discCalls, closeCalls, undoCalls, calls>>
counters == <<discCalls, closeCalls, undoCalls>>
capvars == <<capdev, capq>>
subvars == <<listeners, eev, changes, notes>>
devvars == <<devices, ent, idq, subvars, capvars>>
hubstate == <<hubvars, lockvars, taskvars, histvars, ev>>
vars == <<hubstate, devvars>>

\* Not inside a disconnect call.
NoEntry == [logged_in |-> FALSE, account |-> None, saved |-> FALSE]

\* No call ended in the last step.
NoEv ==
  [op |-> "none", res |-> "none", kind |-> "none", ret |-> "none", h |-> None,
   at |-> None, pre |-> FALSE, ovl |-> FALSE, second |-> "no", acts |-> {},
   entry |-> NoEntry, log |-> <<>>]

AllIdle == \A q \in Procs : pc[q] = "idle"

\* Some other task is inside a login or verify_mfa call.
OtherLV(p) == \E q \in Procs \ {p} : pc[q] \in {"login_connect", "verify_mfa"}

\* ovl after task p starts a login or verify_mfa call: every call in flight
\* is overlapped by it.
OvlStartLV(p) ==
  [q \in Procs |->
     IF q = p THEN OtherLV(p) ELSE IF pc[q] # "idle" THEN TRUE ELSE ovl[q]]

\* ---------------------------------------------------------------- __init__
HubInit ==
  /\ logged_in = FALSE
  /\ account = None
  /\ created = 0
  /\ connected = [h \in Handles |-> FALSE]
  /\ authed = [h \in Handles |-> FALSE]
  /\ session_closed = FALSE
  /\ undo_listener \in BOOLEAN
  /\ lock_owner = None
  /\ waiters = <<>>
  /\ pc = [p \in Procs |-> "idle"]
  /\ hnd = [p \in Procs |-> None]
  /\ pre = [p \in Procs |-> FALSE]
  /\ ovl = [p \in Procs |-> FALSE]
  /\ second = [p \in Procs |-> "no"]
  /\ acts = [p \in Procs |-> {}]
  /\ entry = [p \in Procs |-> NoEntry]
  /\ discCalls = [h \in Handles |-> 0]
  /\ closeCalls = 0
  /\ undoCalls = 0
  /\ calls = 0
  /\ ev = NoEv

\* ------------------------------------------------------------ save_session
\* save_session: sets the flag and returns it.
save_session == [logged_in |-> TRUE, ret |-> TRUE]

\* save_session is called directly: it is a public method with no await, so
\* the call runs in one step, also while other calls are suspended.  It
\* overlaps the login and verify_mfa calls in flight, whose outcome for
\* logged_in it can change, and the disconnect calls in flight note it.
SaveSessionCall(p) ==
  /\ pc[p] = "idle"
  /\ calls < MaxCalls
  /\ calls' = calls + 1
  /\ logged_in' = save_session.logged_in
  /\ ovl' = [q \in Procs |->
               IF q # p /\ pc[q] \in {"login_connect", "verify_mfa"}
               THEN TRUE ELSE ovl[q]]
  /\ ev' = [NoEv EXCEPT !.op = "save_session", !.res = "ok",
                        !.ret = save_session.ret]
  /\ entry' = [q \in Procs |->
                 IF pc[q] \in {"disc_wait", "disc_account", "disc_close"}
                 THEN [entry[q] EXCEPT !.saved = TRUE] ELSE entry[q]]
  /\ UNCHANGED <<account, created, connected, authed, session_closed,
                 undo_listener, lockvars, pc, hnd, pre, second, acts,
                 counters>>
  /\ UNCHANGED devvars

\* ------------------------------------------------------------------- login
\* isinstance(ex, cls) for the classes login's except clauses name.
IsInstance(kind, cls) ==
  CASE cls = "MfaRequired" -> kind = "MfaRequired"
    [] cls = "Authentication" -> kind \in {"MfaRequired", "Authentication"}
    [] cls = "ApiError" -> kind \in {"MfaRequired", "Authentication", "ApiError"}
    [] cls = "ClientResponseError" -> kind = "ClientResponseError"
    [] cls = "ClientConnectorError" -> kind = "ClientConnectorError"
    [] OTHER -> FALSE

\* The except clauses of login with the authentication clause tried first.
LoginExcept_AuthFirst(kind) ==
  IF IsInstance(kind, "Authentication")
  THEN [raise |-> kind, log |-> <<"Invalid credentials">>]
  ELSE IF IsInstance(kind, "MfaRequired")
  THEN [raise |-> kind, log |-> <<>>]
  ELSE IF \/ IsInstance(kind, "ApiError")
          \/ IsInstance(kind, "ClientResponseError")
          \/ IsInstance(kind, "ClientConnectorError")
  THEN [raise |-> kind, log |-> <<"Unable to connect to the Vivint API">>]
  ELSE [raise |-> kind, log |-> <<>>]

\* The except clauses of login, in order: what is logged and what is raised.
LoginExcept(kind) ==
  IF IsInstance(kind, "MfaRequired")
  THEN [raise |-> kind, log |-> <<>>]
  ELSE IF IsInstance(kind, "Authentication")
  THEN [raise |-> kind, log |-> <<"Invalid credentials">>]
  ELSE IF \/ IsInstance(kind, "ApiError")
          \/ IsInstance(kind, "ClientResponseError")
          \/ IsInstance(kind, "ClientConnectorError")
  THEN [raise |-> kind, log |-> <<"Unable to connect to the Vivint API">>]
  ELSE [raise |-> kind, log |-> <<>>]

\* login waiting for the disconnect lock before it starts.
LoginCall_Locked(p) ==
  /\ lock_owner = None
  /\ pc[p] = "idle"
  /\ calls < MaxCalls
  /\ calls' = calls + 1
  /\ created < MaxHandles
  /\ logged_in' = FALSE
  /\ created' = created + 1
  /\ account' = created + 1
  /\ pc' = [pc EXCEPT ![p] = "login_connect"]
  /\ hnd' = [hnd EXCEPT ![p] = created + 1]
  /\ ovl' = OvlStartLV(p)
  /\ ev' = NoEv
  /\ UNCHANGED <<connected, authed, session_closed, undo_listener, lockvars,
                 pre, second, acts, entry, counters>>
  /\ UNCHANGED devvars

\* login without the reset of the flag at its start.
LoginCall_NoReset(p) ==
  /\ pc[p] = "idle"
  /\ calls < MaxCalls
  /\ calls' = calls + 1
  /\ created < MaxHandles
  /\ created' = created + 1
  /\ account' = created + 1
  /\ pc' = [pc EXCEPT ![p] = "login_connect"]
  /\ hnd' = [hnd EXCEPT ![p] = created + 1]
  /\ ovl' = OvlStartLV(p)
  /\ ev' = NoEv
  /\ UNCHANGED <<logged_in, connected, authed, session_closed, undo_listener,
                 lockvars, pre, second, acts, entry, counters>>
  /\ UNCHANGED devvars

\* login up to its await: reset the flag, construct a fresh Account, call connect.
LoginCall(p) ==
  /\ pc[p] = "idle"
  /\ calls < MaxCalls
  /\ calls' = calls + 1
  /\ created < MaxHandles
  /\ logged_in' = FALSE
  /\ created' = created + 1
  /\ account' = created + 1
  /\ pc' = [pc EXCEPT ![p] = "login_connect"]
  /\ hnd' = [hnd EXCEPT ![p] = created + 1]
  /\ ovl' = OvlStartLV(p)
  /\ ev' = NoEv
  /\ UNCHANGED <<connected, authed, session_closed, undo_listener, lockvars,
                 pre, second, acts, entry, counters>>
  /\ UNCHANGED devvars

\* connect returned: save_session, return its value.
LoginConnectOk(p) ==
  /\ pc[p] = "login_connect"
  /\ connected' = [connected EXCEPT ![hnd[p]] = TRUE]
  /\ authed' = [authed EXCEPT ![hnd[p]] = TRUE]
  /\ logged_in' = save_session.logged_in
  /\ pc' = [pc EXCEPT ![p] = "idle"]
  /\ hnd' = [hnd EXCEPT ![p] = None]
  /\ ovl' = [ovl EXCEPT ![p] = FALSE]
  /\ ev' = [NoEv EXCEPT !.op = "login", !.res = "ok", !.ret = save_session.ret,
                        !.h = hnd[p], !.ovl = ovl[p]]
  /\ UNCHANGED <<account, created, session_closed, undo_listener, lockvars,
                 pre, second, acts, entry, histvars>>
  /\ UNCHANGED devvars

\* connect raised: the matching except clause logs and re-raises.
LoginConnectFail(p) ==
  /\ pc[p] = "login_connect"
  /\ \E kind \in ConnectErrors :
       ev' = [NoEv EXCEPT !.op = "login", !.res = "raise",
                          !.kind = LoginExcept(kind).raise, !.at = kind,
                          !.log = LoginExcept(kind).log,
                          !.h = hnd[p], !.ovl = ovl[p]]
  /\ pc' = [pc EXCEPT ![p] = "idle"]
  /\ hnd' = [hnd EXCEPT ![p] = None]
  /\ ovl' = [ovl EXCEPT ![p] = FALSE]
  /\ UNCHANGED <<hubvars, lockvars, pre, second, acts, entry, histvars>>
  /\ UNCHANGED devvars

\* -------------------------------------------------------------- verify_mfa
\* verify_mfa up to its await; on a hub with no Account the attribute lookup
\* raises inside the try block and is re-raised.
VerifyCall(p) ==
  /\ pc[p] = "idle"
  /\ calls < MaxCalls
  /\ calls' = calls + 1
  /\ IF account = None
     THEN /\ ev' = [NoEv EXCEPT !.op = "verify_mfa", !.res = "raise",
                                !.kind = "AttributeError",
                                !.at = "AttributeError",
                                !.pre = logged_in, !.ovl = OtherLV(p)]
          /\ ovl' = [OvlStartLV(p) EXCEPT ![p] = FALSE]
          /\ UNCHANGED <<pc, hnd, pre>>
     ELSE /\ pc' = [pc EXCEPT ![p] = "verify_mfa"]
          /\ hnd' = [hnd EXCEPT ![p] = account]
          /\ pre' = [pre EXCEPT ![p] = logged_in]
          /\ ovl' = OvlStartLV(p)
          /\ ev' = NoEv
  /\ UNCHANGED <<hubvars, lockvars, second, acts, entry, counters>>
  /\ UNCHANGED devvars

\* Account.verify_mfa returned: save_session, return its value.  Whether the
\* vendor object then reports connected is the vendor's business.
VerifyOk(p) ==
  /\ pc[p] = "verify_mfa"
  /\ \E c \in {TRUE, connected[hnd[p]]} :
       connected' = [connected EXCEPT ![hnd[p]] = c]
  /\ authed' = [authed EXCEPT ![hnd[p]] = TRUE]
  /\ logged_in' = save_session.logged_in
  /\ pc' = [pc EXCEPT ![p] = "idle"]
  /\ hnd' = [hnd EXCEPT ![p] = None]
  /\ pre' = [pre EXCEPT ![p] = FALSE]
  /\ ovl' = [ovl EXCEPT ![p] = FALSE]
  /\ ev' = [NoEv EXCEPT !.op = "verify_mfa", !.res = "ok",
                        !.ret = save_session.ret, !.h = hnd[p],
                        !.pre = pre[p], !.ovl = ovl[p]]
  /\ UNCHANGED <<account, created, session_closed, undo_listener, lockvars,
                 second, acts, entry, histvars>>
  /\ UNCHANGED devvars

\* What verify_mfa's except clause raises for an exception of kind `kind`.
VerifyExcept(kind) == kind

\* verify_mfa clearing the flag when Account.verify_mfa raises.
VerifyFail_ClearsFlag(p) ==
  /\ pc[p] = "verify_mfa"
  /\ \E kind \in EnvErrors :
       ev' = [NoEv EXCEPT !.op = "verify_mfa", !.res = "raise",
                          !.kind = VerifyExcept(kind), !.at = kind,
                          !.h = hnd[p], !.pre = pre[p], !.ovl = ovl[p]]
  /\ logged_in' = FALSE
  /\ pc' = [pc EXCEPT ![p] = "idle"]
  /\ hnd' = [hnd EXCEPT ![p] = None]
  /\ pre' = [pre EXCEPT ![p] = FALSE]
  /\ ovl' = [ovl EXCEPT ![p] = FALSE]
  /\ UNCHANGED <<account, created, connected, authed, session_closed,
                 undo_listener, lockvars, second, acts, entry, histvars>>
  /\ UNCHANGED devvars

\* Account.verify_mfa raised: except Exception re-raises it.
VerifyFail(p) ==
  /\ pc[p] = "verify_mfa"
  /\ \E kind \in EnvErrors :
       ev' = [NoEv EXCEPT !.op = "verify_mfa", !.res = "raise",
                          !.kind = VerifyExcept(kind), !.at = kind,
                          !.h = hnd[p], !.pre = pre[p], !.ovl = ovl[p]]
  /\ pc' = [pc EXCEPT ![p] = "idle"]
  /\ hnd' = [hnd EXCEPT ![p] = None]
  /\ pre' = [pre EXCEPT ![p] = FALSE]
  /\ ovl' = [ovl EXCEPT ![p] = FALSE]
  /\ UNCHANGED <<hubvars, lockvars, second, acts, entry, histvars>>
  /\ UNCHANGED devvars

\* -------------------------------------------------------------- disconnect
\* disconnect without the lock: every call enters the body at once.
CanAcquire_NoLock(owner, ws) == TRUE

\* asyncio.Lock.acquire without waiting: the lock is free and nobody queues.
CanAcquire(owner, ws) == owner = None /\ ws = <<>>

\* The teardown step without clearing the reference after the call.
UndoStep_NoClear(undo, cb) ==
  IF undo
  THEN IF cb = "ok"
       THEN [next |-> "return", kind |-> "none", undo |-> undo,
             did |-> {"undo_listener"}]
       ELSE [next |-> "raise", kind |-> cb, undo |-> undo,
             did |-> {"undo_listener"}]
  ELSE [next |-> "return", kind |-> "none", undo |-> undo, did |-> {}]

\* The last statement group of the locked body: the one-shot teardown
\* callback.  cb is what the callback does when invoked ("ok" or an
\* exception kind).
UndoStep(undo, cb) ==
  IF undo
  THEN IF cb = "ok"
       THEN [next |-> "return", kind |-> "none", undo |-> FALSE,
             did |-> {"undo_listener"}]
       ELSE [next |-> "raise", kind |-> cb, undo |-> undo,
             did |-> {"undo_listener"}]
  ELSE [next |-> "return", kind |-> "none", undo |-> undo, did |-> {}]

\* The session step without the test of session.closed.
CloseStep_NoTest(closed, undo, cb) ==
  [next |-> "disc_close", kind |-> "none", undo |-> undo,
   did |-> {"session.close"}]

\* The locked body from the session test on.
CloseStep(closed, undo, cb) ==
  IF ~closed
  THEN [next |-> "disc_close", kind |-> "none", undo |-> undo,
        did |-> {"session.close"}]
  ELSE UndoStep(undo, cb)

\* The locked body with a test for a missing Account before the first
\* statement.
AccountStep_Guarded(acct, conn, closed, undo, cb) ==
  IF acct # None /\ conn[acct]
  THEN [next |-> "disc_account", kind |-> "none", undo |-> undo,
        did |-> {"account.disconnect"}]
  ELSE CloseStep(closed, undo, cb)

\* The locked body from its first statement.
AccountStep(acct, conn, closed, undo, cb) ==
  IF acct = None
  THEN [next |-> "raise", kind |-> "AttributeError", undo |-> undo, did |-> {}]
  ELSE IF conn[acct]
  THEN [next |-> "disc_account", kind |-> "none", undo |-> undo,
        did |-> {"account.disconnect"}]
  ELSE CloseStep(closed, undo, cb)

\* What the teardown callback can do in a step that runs the body to r when
\* the callback returns: it matters only if the step invokes the callback.
CallbackOutcomes(r) ==
  IF "undo_listener" \in r.did THEN {"ok"} \cup EnvErrors ELSE {"ok"}

\* The lock kept by the task when an exception ends the body.
LockAfter_HeldOnRaise(p, r) == IF r.next = "return" THEN None ELSE p

\* async with self._lock: the owner of the lock after task p ran the body to
\* r.  Leaving the body, by return or by exception, releases the lock.
LockAfter(p, r) == IF r.next \in {"return", "raise"} THEN None ELSE p

\* Task p, holding the lock, runs the body to its next suspension point or to
\* its end (r); leaving the body releases the lock.  sec, ov, sofar and en
\* are the call's bookkeeping up to this step.
DiscApply(p, r, sec, ov, sofar, en) ==
  LET ended == r.next \in {"return", "raise"} IN
  /\ undo_listener' = r.undo
  /\ undoCalls' = IF "undo_listener" \in r.did THEN undoCalls + 1 ELSE undoCalls
  /\ closeCalls' = IF "session.close" \in r.did THEN closeCalls + 1 ELSE closeCalls
  /\ discCalls' = IF "account.disconnect" \in r.did
                  THEN [discCalls EXCEPT ![account] = @ + 1]
                  ELSE discCalls
  /\ lock_owner' = LockAfter(p, r)
  /\ pc' = [pc EXCEPT ![p] = IF ended THEN "idle" ELSE r.next]
  /\ hnd' = [hnd EXCEPT ![p] = IF r.next = "disc_account" THEN account ELSE None]
  /\ acts' = [acts EXCEPT ![p] = IF ended THEN {} ELSE sofar \cup r.did]
  /\ second' = [second EXCEPT ![p] = IF ended THEN "no" ELSE sec]
  /\ ovl' = [ovl EXCEPT ![p] = IF ended THEN FALSE ELSE ov]
  /\ entry' = [entry EXCEPT ![p] = IF ended THEN NoEntry ELSE en]
  /\ ev' = IF ended
           THEN [NoEv EXCEPT !.op = "disconnect",
                             !.res = IF r.next = "return" THEN "ok" ELSE "raise",
                             !.kind = r.kind, !.ovl = ov, !.second = sec,
                             !.acts = sofar \cup r.did, !.entry = en]
           ELSE NoEv

\* What a disconnect call notes when it starts: the flag and the reference
\* it finds.
EntryOf(flag, acct) == [logged_in |-> flag, account |-> acct, saved |-> FALSE]

\* Outcome of the disconnect call that ended in the last step with nothing
\* else in flight and no login/verify_mfa overlapping it; "no" otherwise.
DirectlyAfterDisconnect ==
  IF ev.op = "disconnect" /\ ~ev.ovl /\ AllIdle THEN ev.res ELSE "no"

\* disconnect is called: take the lock and run the body, or queue for it.
DisconnectCall(p) ==
  /\ pc[p] = "idle"
  /\ calls < MaxCalls
  /\ calls' = calls + 1
  /\ IF CanAcquire(lock_owner, waiters)
     THEN /\ \E cb \in CallbackOutcomes(
                          AccountStep(account, connected, session_closed,
                                      undo_listener, "ok")) :
               DiscApply(p, AccountStep(account, connected, session_closed,
                                        undo_listener, cb),
                         DirectlyAfterDisconnect, OtherLV(p), {},
                         EntryOf(logged_in, account))
          /\ UNCHANGED waiters
     ELSE /\ waiters' = Append(waiters, p)
          /\ pc' = [pc EXCEPT ![p] = "disc_wait"]
          /\ ovl' = [ovl EXCEPT ![p] = OtherLV(p)]
          /\ entry' = [entry EXCEPT ![p] = EntryOf(logged_in, account)]
          /\ ev' = NoEv
          /\ UNCHANGED <<lock_owner, undo_listener, hnd, second, acts, counters>>
  /\ UNCHANGED <<logged_in, account, created, connected, authed,
                 session_closed, pre>>
  /\ UNCHANGED devvars

\* The lock was released and task p is first in the queue: it takes the lock
\* and runs the body.
DisconnectAcquire(p) ==
  /\ pc[p] = "disc_wait"
  /\ lock_owner = None
  /\ waiters # <<>> /\ Head(waiters) = p
  /\ waiters' = Tail(waiters)
  /\ \E cb \in CallbackOutcomes(
                AccountStep(account, connected, session_closed,
                            undo_listener, "ok")) :
       DiscApply(p, AccountStep(account, connected, session_closed,
                                undo_listener, cb),
                 second[p], ovl[p], acts[p], entry[p])
  /\ UNCHANGED <<logged_in, account, created, connected, authed,
                 session_closed, pre>>
  /\ UNCHANGED calls
  /\ UNCHANGED devvars

\* Account.disconnect returned: the object is no longer connected; go on
\* with the session.
AccountDisconnectOk(p) ==
  /\ pc[p] = "disc_account"
  /\ connected' = [connected EXCEPT ![hnd[p]] = FALSE]
  /\ \E cb \in CallbackOutcomes(CloseStep(session_closed, undo_listener, "ok")) :
       DiscApply(p, CloseStep(session_closed, undo_listener, cb),
                 second[p], ovl[p], acts[p], entry[p])
  /\ UNCHANGED <<logged_in, account, created, authed, session_closed,
                 waiters, pre>>
  /\ UNCHANGED calls
  /\ UNCHANGED devvars

\* Account.disconnect raised: the body is left; the object may or may not
\* still report connected.
AccountDisconnectFail(p) ==
  /\ pc[p] = "disc_account"
  /\ \E c \in BOOLEAN : connected' = [connected EXCEPT ![hnd[p]] = c]
  /\ \E kind \in EnvErrors :
       DiscApply(p, [next |-> "raise", kind |-> kind, undo |-> undo_listener,
                     did |-> {}],
                 second[p], ovl[p], acts[p], entry[p])
  /\ UNCHANGED <<logged_in, account, created, authed, session_closed,
                 waiters, pre>>
  /\ UNCHANGED calls
  /\ UNCHANGED devvars

\* session.close returned, with disconnect also clearing the logged_in flag.
SessionCloseOk_Logout(p) ==
  /\ pc[p] = "disc_close"
  /\ session_closed' = TRUE
  /\ logged_in' = FALSE
  /\ \E cb \in CallbackOutcomes(UndoStep(undo_listener, "ok")) :
       DiscApply(p, UndoStep(undo_listener, cb), second[p], ovl[p],
                 acts[p], entry[p])
  /\ UNCHANGED <<account, created, connected, authed, waiters, pre>>
  /\ UNCHANGED calls
  /\ UNCHANGED devvars

\* session.close returned: the session is closed; go on with the callback.
SessionCloseOk(p) ==
  /\ pc[p] = "disc_close"
  /\ session_closed' = TRUE
  /\ \E cb \in CallbackOutcomes(UndoStep(undo_listener, "ok")) :
       DiscApply(p, UndoStep(undo_listener, cb), second[p], ovl[p],
                 acts[p], entry[p])
  /\ UNCHANGED <<logged_in, account, created, connected, authed, waiters, pre>>
  /\ UNCHANGED calls
  /\ UNCHANGED devvars

\* session.close raised: the body is left; the session may or may not be
\* closed.
SessionCloseFail(p) ==
  /\ pc[p] = "disc_close"
  /\ \E c \in BOOLEAN : session_closed' = c
  /\ \E kind \in EnvErrors :
       DiscApply(p, [next |-> "raise", kind |-> kind, undo |-> undo_listener,
                     did |-> {}],
                 second[p], ovl[p], acts[p], entry[p])
  /\ UNCHANGED <<logged_in, account, created, connected, authed, waiters, pre>>
  /\ UNCHANGED calls
  /\ UNCHANGED devvars

\* ----------------------------------------------------- _async_update_data
\* The update function bound to the first Account the hub ever held.
UpdateTarget_Stale(acct) == IF acct = None THEN None ELSE 1

\* The Account object the update function calls refresh on, given the hub's
\* account reference when the tick runs.
UpdateTarget(acct) == acct

\* What the update function returns when refresh returns v.
UpdateReturn(v) == v

\* What refresh can return.
RefreshValues == {"None", "data"}

\* A polling tick: the coordinator calls the update function, which calls
\* refresh on the hub's Account; with no Account the lookup raises.
TickCall(p) ==
  /\ pc[p] = "idle"
  /\ calls < MaxCalls
  /\ calls' = calls + 1
  /\ IF UpdateTarget(account) = None
     THEN /\ ev' = [NoEv EXCEPT !.op = "tick", !.res = "raise",
                                !.kind = "AttributeError",
                                !.at = "AttributeError"]
          /\ UNCHANGED <<pc, hnd>>
     ELSE /\ pc' = [pc EXCEPT ![p] = "refresh"]
          /\ hnd' = [hnd EXCEPT ![p] = UpdateTarget(account)]
          /\ ev' = NoEv
  /\ ovl' = [ovl EXCEPT ![p] = FALSE]
  /\ UNCHANGED <<hubvars, lockvars, pre, second, acts, entry, counters>>
  /\ UNCHANGED devvars

\* refresh returned: the update function returns its value.
TickRefreshOk(p) ==
  /\ pc[p] = "refresh"
  /\ \E v \in RefreshValues :
       ev' = [NoEv EXCEPT !.op = "tick", !.res = "ok", !.ret = UpdateReturn(v),
                          !.at = v, !.h = hnd[p]]
  /\ pc' = [pc EXCEPT ![p] = "idle"]
  /\ hnd' = [hnd EXCEPT ![p] = None]
  /\ UNCHANGED <<hubvars, lockvars, pre, ovl, second, acts, entry, histvars>>
  /\ UNCHANGED devvars

\* refresh raised: the exception reaches the coordinator.
TickRefreshFail(p) ==
  /\ pc[p] = "refresh"
  /\ \E kind \in EnvErrors :
       ev' = [NoEv EXCEPT !.op = "tick", !.res = "raise", !.kind = kind,
                          !.at = kind, !.h = hnd[p]]
  /\ pc' = [pc EXCEPT ![p] = "idle"]
  /\ hnd' = [hnd EXCEPT ![p] = None]
  /\ UNCHANGED <<hubvars, lockvars, pre, ovl, second, acts, entry, histvars>>
  /\ UNCHANGED devvars

\* ----------------------------------------------------------------- devices
\* The integration's domain constant (DOMAIN of const.py).
VIVINT_DOMAIN == "vivint"

\* Values the vendor's device attributes are drawn from.
DeviceIds == {5, 12}
PanelIds == {100, 101}
Names == {"", "Door"}
Manufacturers == {"Vivint"}
Models == {"V1"}
Versions == {"1.0"}
Keys == {"battery"}

DigitChar(d) == <<"0", "1", "2", "3", "4", "5", "6", "7", "8", "9">>[d + 1]

\* str(n) of a non-negative integer, as the sequence of its characters.
RECURSIVE Str(_)
Str(n) == IF n < 10 THEN <<DigitChar(n)>>
          ELSE Str(n \div 10) \o <<DigitChar(n % 10)>>

\* VivintDevice.is_subdevice: the device has a parent.
is_subdevice(d) == d.parent # None

\* type(device).__name__
TypeName(d) == IF d.is_panel THEN "AlarmPanel" ELSE "VivintDevice"

\* get_device_id with the device's own id for every device.
get_device_id_Own(devs, i) ==
  <<VIVINT_DOMAIN, Str(devs[i].panel_id) \o <<"-">> \o Str(devs[i].id)>>

\* get_device_id(device) for the device object i of the table devs.
get_device_id(devs, i) ==
  <<VIVINT_DOMAIN,
    Str(devs[i].panel_id) \o <<"-">>
      \o Str(IF is_subdevice(devs[i]) THEN devs[devs[i].parent].id
             ELSE devs[i].id)>>

\* The device-info record with via_device naming the device itself.
DeviceInfo_ViaSelf(devs, i) ==
  LET e == IF is_subdevice(devs[i]) THEN devs[i].parent ELSE i
      device == devs[e] IN
  [identifiers |-> {get_device_id(devs, e)},
   name |-> IF device.name # "" THEN device.name ELSE TypeName(device),
   manufacturer |-> device.manufacturer,
   model |-> device.model,
   sw_version |-> device.software_version,
   via_device |-> IF device.is_panel THEN <<>> ELSE get_device_id(devs, e)]

\* The device-info record both entity constructors build for device object i.
DeviceInfo(devs, i) ==
  LET e == IF is_subdevice(devs[i]) THEN devs[i].parent ELSE i
      device == devs[e] IN
  [identifiers |-> {get_device_id(devs, e)},
   name |-> IF device.name # "" THEN device.name ELSE TypeName(device),
   manufacturer |-> device.manufacturer,
   model |-> device.model,
   sw_version |-> device.software_version,
   via_device |-> IF device.is_panel THEN <<>>
                  ELSE get_device_id(devs, device.alarm_panel)]

\* VivintBaseEntity._attr_unique_id
UniqueId(devs, i, key) ==
  (IF devs[i].alarm_panel # None
   THEN Str(devs[devs[i].alarm_panel].id) \o <<"-">> ELSE <<>>)
    \o Str(devs[i].id) \o <<"-">> \o <<key>>

\* No entity yet.  state is the entity's place in its life cycle ("new":
\* constructed, "added": async_added_to_hass has run, "removed"), refreshes
\* counts its async_write_ha_state calls, snapshot is the record as built.
NoEnt == [cls |-> "none", device |-> None, unique_id |-> <<>>,
          device_info |-> <<>>, state |-> "none", refreshes |-> 0,
          snapshot |-> <<>>]
NoEev == [op |-> "none", device |-> None, refreshes |-> 0, result |-> ""]
NoListeners == [i \in 1..MaxDevices |-> 0]
NoQuery == [device |-> None, result |-> <<>>]

\* The device trees of the vendor's data model: object 1 is the alarm panel,
\* the others are its devices; a sub-device's parent is a top-level device.
\* Every device carries its own panel_id attribute, which nothing ties to its
\* parent's or to the panel's.
DeviceTables ==
  LET Panel == [id : DeviceIds, panel_id : PanelIds, parent : {None},
                is_panel : {TRUE}, alarm_panel : {None}, name : Names,
                manufacturer : Manufacturers, model : Models,
                software_version : Versions]
      Dev == [id : DeviceIds, panel_id : PanelIds, parent : 0..MaxDevices,
              is_panel : {FALSE}, alarm_panel : {1}, name : Names,
              manufacturer : Manufacturers, model : Models,
              software_version : Versions]
      Rest == {r \in [2..MaxDevices -> Dev] :
                 \A i \in 2..MaxDevices :
                   /\ r[i].parent \notin {1, i}
                   /\ r[i].parent # None => r[r[i].parent].parent = None}
  IN {[i \in 1..MaxDevices |-> IF i = 1 THEN p ELSE r[i]] :
        p \in Panel, r \in Rest}

\* VivintBaseEntity.__init__ for device object i and an entity description.
\* The model follows one entity at a time: the next one is constructed when
\* the one before is not subscribed.
NewBaseEntity(i) ==
  /\ ent.state # "added"
  /\ \E key \in Keys :
       ent' = [NoEnt EXCEPT
                 !.cls = "VivintBaseEntity", !.device = i,
                 !.unique_id = UniqueId(devices, i, key),
                 !.device_info = DeviceInfo(devices, i),
                 !.state = "new",
                 !.snapshot = DeviceInfo(devices, i)]
  /\ UNCHANGED <<devices, idq, subvars, capvars, hubstate>>

\* VivintEntity.__init__ for device object i.
NewEntity(i) ==
  /\ ent.state # "added"
  /\ ent' = [NoEnt EXCEPT
               !.cls = "VivintEntity", !.device = i,
               !.device_info = DeviceInfo(devices, i),
               !.state = "new",
               !.snapshot = DeviceInfo(devices, i)]
  /\ UNCHANGED <<devices, idq, subvars, capvars, hubstate>>

\* A caller asks get_device_id for device object i.
GetDeviceId(i) ==
  /\ idq' = [device |-> i, result |-> get_device_id(devices, i)]
  /\ UNCHANGED <<devices, ent, subvars, capvars, hubstate>>

\* ----------------------------------------------------- entity life cycle
\* device.on(UPDATE, callback): one more callback on device object d.
Subscribe(ls, d) == [ls EXCEPT ![d] = @ + 1]

\* Removal that leaves the UPDATE callback on the device.
Unsubscribe_Keep(ls, d) == ls

\* The function device.on returned, which async_on_remove runs when the
\* entity is removed: the callback is taken off device object d.
Unsubscribe(ls, d) == [ls EXCEPT ![d] = IF @ > 0 THEN @ - 1 ELSE 0]

\* device.emit(UPDATE): every callback on device object d runs once, and each
\* is one async_write_ha_state call of the entity.
Emit(ls, d) == ls[d]

\* VivintEntity.name served from the device-info record.
EntityName_Cached(devs, e) == e.device_info.name

\* VivintEntity.name
EntityName(devs, e) == devs[e.device].name

\* VivintBaseEntity.async_added_to_hass
BaseAddedToHass ==
  /\ ent.cls = "VivintBaseEntity" /\ ent.state = "new"
  /\ listeners' = Subscribe(listeners, ent.device)
  /\ ent' = [ent EXCEPT !.state = "added"]
  /\ eev' = NoEev
  /\ UNCHANGED <<devices, idq, changes, notes, capvars, hubstate>>

\* VivintEntity.async_added_to_hass
EntityAddedToHass ==
  /\ ent.cls = "VivintEntity" /\ ent.state = "new"
  /\ listeners' = Subscribe(listeners, ent.device)
  /\ ent' = [ent EXCEPT !.state = "added"]
  /\ eev' = NoEev
  /\ UNCHANGED <<devices, idq, changes, notes, capvars, hubstate>>

\* The entity is removed: the callbacks registered with async_on_remove run.
RemovedFromHass ==
  /\ ent.state = "added"
  /\ listeners' = Unsubscribe(listeners, ent.device)
  /\ ent' = [ent EXCEPT !.state = "removed"]
  /\ eev' = NoEev
  /\ UNCHANGED <<devices, idq, changes, notes, capvars, hubstate>>

\* Device object d emits UPDATE.
UpdateNotification(d) ==
  /\ notes < MaxNotifications
  /\ notes' = notes + 1
  /\ ent' = [ent EXCEPT !.refreshes = @ + Emit(listeners, d)]
  /\ eev' = [NoEev EXCEPT !.op = "update", !.device = d,
                          !.refreshes = Emit(listeners, d)]
  /\ UNCHANGED <<devices, idq, listeners, changes, capvars, hubstate>>

\* The descriptive data the vendor library can load for a device: the data
\* the devices start with, and data that differs from it in every attribute.
DeviceData ==
  {[name |-> "Door", manufacturer |-> "Vivint", model |-> "V1",
    software_version |-> "1.0"],
   [name |-> "Window", manufacturer |-> "2GIG", model |-> "V2",
    software_version |-> "1.1"]}

\* The vendor library loads new data for device object i: its name,
\* manufacturer, model and firmware version change.
DeviceChange(i) ==
  /\ changes < MaxChanges
  /\ changes' = changes + 1
  /\ \E d \in DeviceData :
       /\ \E a \in DOMAIN d : d[a] # devices[i][a]
       /\ devices' = [devices EXCEPT ![i] =
                        [a \in DOMAIN @ |-> IF a \in DOMAIN d THEN d[a]
                                            ELSE @[a]]]
  /\ eev' = NoEev
  /\ UNCHANGED <<ent, idq, listeners, notes, capvars, hubstate>>

\* The name property of a VivintEntity is read.
ReadName ==
  /\ ent.cls = "VivintEntity"
  /\ eev' = [NoEev EXCEPT !.op = "name", !.device = ent.device,
                          !.result = EntityName(devices, ent)]
  /\ UNCHANGED <<devices, ent, idq, listeners, changes, notes, capvars,
                 hubstate>>

\* ------------------------------------------------- capabilities, features
Categories == 1..MaxCategories
Capabilities == 1..MaxCapabilities
Features == 1..MaxFeatures

\* An attribute that is None, or holds a value.
Unset == [isNone |-> TRUE, val |-> <<>>]
Value(v) == [isNone |-> FALSE, val |-> v]

\* Python's "x or d" for a dict or None: d when x is None or empty.
OrDict(x, d) == IF x.isNone \/ DOMAIN x.val = {} THEN d ELSE x.val

\* Python's "x or d" for a list or None: d when x is None or empty.
OrList(x, d) == IF x.isNone \/ x.val = {} THEN d ELSE x.val

\* dict.get(key, default)
Get(t, key, default) == IF key \in DOMAIN t THEN t[key] ELSE default

\* has_capability with a missing category counting as "has it".
has_capability_MissingTrue(device, category, capability) ==
  LET t == OrDict(device.capabilities, <<>>) IN
  IF DOMAIN t = {} THEN FALSE
  ELSE IF category \in DOMAIN t THEN capability \in t[category] ELSE TRUE

\* has_capability(device, category, capability); the value lists are
\* modelled by their sets of members.
has_capability(device, category, capability) ==
  IF capability \in Get(OrDict(device.capabilities, <<>>), category, {})
  THEN TRUE
  ELSE FALSE

\* has_feature(device, feature)
has_feature(device, feature) == feature \in OrList(device.features, {})

\* The capability tables and feature lists a device can carry.
CapabilityTables ==
  {Unset} \cup
  {Value(t) : t \in UNION {[S -> SUBSET Capabilities] :
                            S \in SUBSET Categories}}
FeatureLists == {Unset} \cup {Value(f) : f \in SUBSET Features}
CapDevices == [capabilities : CapabilityTables, features : FeatureLists]

NoCapDevice == [capabilities |-> Unset, features |-> Unset]
NoCapQuery == [fn |-> "none", category |-> None, capability |-> None,
               feature |-> None, result |-> FALSE]

\* A platform asks has_capability for the device.
HasCapability(category, capability) ==
  /\ capq' = [NoCapQuery EXCEPT
               !.fn = "has_capability", !.category = category,
               !.capability = capability,
               !.result = has_capability(capdev, category, capability)]
  /\ UNCHANGED <<capdev, devices, ent, idq, subvars, hubstate>>

\* A platform asks has_feature for the device.
HasFeature(feature) ==
  /\ capq' = [NoCapQuery EXCEPT
               !.fn = "has_feature", !.feature = feature,
               !.result = has_feature(capdev, feature)]
  /\ UNCHANGED <<capdev, devices, ent, idq, subvars, hubstate>>

\* ------------------------------------------------------------ specification
HubNext ==
  \E p \in Procs :
    \/ LoginCall(p)
    \/ LoginConnectOk(p)
    \/ LoginConnectFail(p)
    \/ SaveSessionCall(p)
    \/ VerifyCall(p)
    \/ VerifyOk(p)
    \/ VerifyFail(p)
    \/ DisconnectCall(p)
    \/ DisconnectAcquire(p)
    \/ AccountDisconnectOk(p)
    \/ AccountDisconnectFail(p)
    \/ SessionCloseOk(p)
    \/ SessionCloseFail(p)
    \/ TickCall(p)
    \/ TickRefreshOk(p)
    \/ TickRefreshFail(p)

\* The hub and the tasks calling into it, with no devices.
Init ==
  /\ HubInit
  /\ devices = <<>> /\ ent = NoEnt /\ idq = NoQuery
  /\ listeners = NoListeners /\ eev = NoEev /\ changes = 0 /\ notes = 0
  /\ capdev = NoCapDevice /\ capq = NoCapQuery

Next == HubNext

Spec == Init /\ [][Next]_vars

\* What the event loop and the awaited calls owe task p: a suspended call is
\* resumed, by a return or by an exception, and a task the released lock was
\* handed to is run.
Resume(p) ==
  \/ LoginConnectOk(p)
  \/ LoginConnectFail(p)
  \/ VerifyOk(p)
  \/ VerifyFail(p)
  \/ DisconnectAcquire(p)
  \/ AccountDisconnectOk(p)
  \/ AccountDisconnectFail(p)
  \/ SessionCloseOk(p)
  \/ SessionCloseFail(p)
  \/ TickRefreshOk(p)
  \/ TickRefreshFail(p)

\* The hub under fair scheduling: no suspended task waits forever.
FairSpec == Init /\ [][Next]_vars /\ \A p \in Procs : WF_vars(Resume(p))

\* The device trees the entity helpers are run on: the panel has id 12 and
\* panel_id 100, and every other device any id, any panel_id and any place in
\* the tree DeviceTables allows; the name is unset or set on the panel and on
\* the first device, and set on the others.
DevTables ==
  {t \in DeviceTables :
     /\ t[1].id = 12 /\ t[1].panel_id = 100
     /\ \A i \in 3..MaxDevices : t[i].name = "Door"}

\* The entity helpers over these device trees, on an idle hub.
DevInit ==
  /\ HubInit
  /\ ~undo_listener
  /\ devices \in DevTables
  /\ ent = NoEnt
  /\ idq = NoQuery
  /\ listeners = NoListeners /\ eev = NoEev /\ changes = 0 /\ notes = 0
  /\ capdev = NoCapDevice /\ capq = NoCapQuery

DevNext ==
  \E i \in 1..MaxDevices :
    \/ NewBaseEntity(i)
    \/ NewEntity(i)
    \/ GetDeviceId(i)

DevSpec == DevInit /\ [][DevNext]_vars

\* A hub on which one login call has returned: the state LoginCall and
\* LoginConnectOk of task 1 lead to from HubInit without a teardown callback.
HubLoggedIn ==
  /\ logged_in = TRUE
  /\ account = 1
  /\ created = 1
  /\ connected = [h \in Handles |-> h = 1]
  /\ authed = [h \in Handles |-> h = 1]
  /\ session_closed = FALSE
  /\ undo_listener = FALSE
  /\ lock_owner = None
  /\ waiters = <<>>
  /\ pc = [p \in Procs |-> "idle"]
  /\ hnd = [p \in Procs |-> None]
  /\ pre = [p \in Procs |-> FALSE]
  /\ ovl = [p \in Procs |-> FALSE]
  /\ second = [p \in Procs |-> "no"]
  /\ acts = [p \in Procs |-> {}]
  /\ entry = [p \in Procs |-> NoEntry]
  /\ discCalls = [h \in Handles |-> 0]
  /\ closeCalls = 0
  /\ undoCalls = 0
  /\ calls = 1
  /\ ev = [NoEv EXCEPT !.op = "login", !.res = "ok", !.ret = TRUE, !.h = 1]

\* The device tree the entity life cycle runs on: the panel, a top-level
\* device, and sub-devices of that device.
EntTables ==
  {t \in DeviceTables :
     /\ t[1].id = 12
     /\ \A i \in 1..MaxDevices : t[i].name = "Door" /\ t[i].panel_id = 100
     /\ \A i \in 2..MaxDevices :
          /\ t[i].id = 5
          /\ t[i].parent = IF i = 2 THEN None ELSE 2}

\* The task of the hub's DataUpdateCoordinator, which runs one refresh at a
\* time.
Coordinator == 1

\* Entities of a logged-in hub: construction, activation, UPDATE
\* notifications, removal, changes of the devices, and polling ticks.
EntInit ==
  /\ HubLoggedIn
  /\ devices \in EntTables
  /\ ent = NoEnt
  /\ idq = NoQuery
  /\ listeners = NoListeners /\ eev = NoEev /\ changes = 0 /\ notes = 0
  /\ capdev = NoCapDevice /\ capq = NoCapQuery

EntNext ==
  \/ \E i \in 1..MaxDevices :
       \/ NewBaseEntity(i)
       \/ NewEntity(i)
       \/ UpdateNotification(i)
       \/ DeviceChange(i)
  \/ BaseAddedToHass
  \/ EntityAddedToHass
  \/ RemovedFromHass
  \/ ReadName
  \/ TickCall(Coordinator)
  \/ TickRefreshOk(Coordinator)
  \/ TickRefreshFail(Coordinator)

EntSpec == EntInit /\ [][EntNext]_vars

\* The capability helpers over every capability table and feature list, on an
\* idle hub.
CapInit ==
  /\ HubInit
  /\ ~undo_listener
  /\ devices = <<>> /\ ent = NoEnt /\ idq = NoQuery
  /\ listeners = NoListeners /\ eev = NoEev /\ changes = 0 /\ notes = 0
  /\ capdev \in CapDevices
  /\ capq = NoCapQuery

CapNext ==
  \/ \E category \in Categories, capability \in Capabilities :
       HasCapability(category, capability)
  \/ \E feature \in Features : HasFeature(feature)

CapSpec == CapInit /\ [][CapNext]_vars

\* ------------------------------------------------------------------ claims
InBody(p) == pc[p] \in {"disc_account", "disc_close"}

\* A step in which logged_in turns from false to true.
SetsLoggedIn == ~logged_in /\ logged_in'

\* C1 as stated: every login call that returns has logged_in true and returns
\* true, and every login call that raises has logged_in false when the
\* exception reaches the caller.
C1_AsStated ==
  /\ (ev.op = "login" /\ ev.res = "ok") => (logged_in /\ ev.ret = TRUE)
  /\ (ev.op = "login" /\ ev.res = "raise") => ~logged_in

\* C1 amended: a login call that returns has logged_in true and returns true;
\* a login call that raises, and that no other login, verify_mfa or
\* save_session call overlapped, has logged_in false when the exception
\* reaches the caller; and logged_in turns true only in a step in which
\* save_session runs: when connect or verify_mfa returns, or when it is
\* called directly.
C1_LoginOutcome ==
  /\ [](/\ (ev.op = "login" /\ ev.res = "ok") => (logged_in /\ ev.ret = TRUE)
        /\ (ev.op = "login" /\ ev.res = "raise" /\ ~ev.ovl) => ~logged_in)
  /\ [][SetsLoggedIn =>
          (ev'.op \in {"login", "verify_mfa", "save_session"}
           /\ ev'.res = "ok" /\ ev'.ret = TRUE)]_vars

\* A second login raised, not overlapped, on a hub whose first Account had
\* logged in.
C1_Witness ==
  /\ ev.op = "login" /\ ev.res = "raise" /\ ~ev.ovl
  /\ ev.h = 2 /\ authed[1]

\* C2 as stated: a verify_mfa call that returns has logged_in true and
\* returns true; one that raises leaves logged_in at the value it had when
\* the call started and raises what Account.verify_mfa raised.
C2_AsStated ==
  /\ (ev.op = "verify_mfa" /\ ev.res = "ok") => (logged_in /\ ev.ret = TRUE)
  /\ (ev.op = "verify_mfa" /\ ev.res = "raise") =>
       (logged_in = ev.pre /\ ev.kind = ev.at)

\* C2 amended: a verify_mfa call that returns has logged_in true and returns
\* true; one that raises raises what Account.verify_mfa raised and, when no
\* other login, verify_mfa or save_session call overlapped it, leaves
\* logged_in at the value it had when the call started.
C2_VerifyOutcome ==
  /\ (ev.op = "verify_mfa" /\ ev.res = "ok") => (logged_in /\ ev.ret = TRUE)
  /\ (ev.op = "verify_mfa" /\ ev.res = "raise") => ev.kind = ev.at
  /\ (ev.op = "verify_mfa" /\ ev.res = "raise" /\ ~ev.ovl) =>
       logged_in = ev.pre

\* Account.verify_mfa raised on a hub that was logged in when the call
\* started, and no other login or verify_mfa call overlapped.
C2_Witness ==
  /\ ev.op = "verify_mfa" /\ ev.res = "raise" /\ ev.at \in EnvErrors
  /\ ev.pre /\ ~ev.ovl

\* A disconnect call made directly after another disconnect call ended (no
\* other call in between or overlapping) has invoked nothing and has not
\* suspended.
NoActionAfter(outcomes) ==
  /\ \A p \in Procs : pc[p] # "idle" => second[p] \notin outcomes
  /\ (ev.op = "disconnect" /\ ev.second \in outcomes) =>
       (ev.res = "ok" /\ ev.acts = {})

\* C3 as stated: of two disconnect calls in sequence the second performs no
\* action (no Account.disconnect, no session.close, no callback) and raises
\* nothing, whatever the outcome of the first.
C3_AsStated == NoActionAfter({"ok", "raise"})

\* C3 amended: of two disconnect calls in sequence, the first of which
\* returned normally, the second performs no action and raises nothing; after
\* the first the callback reference is cleared.
C3_SecondDisconnectNoOp ==
  /\ NoActionAfter({"ok"})
  /\ (ev.op = "disconnect" /\ ev.res = "ok" /\ ~ev.ovl) => ~undo_listener

\* A second disconnect call ended after a first one that closed the session
\* and invoked the callback.
C3_Witness ==
  /\ ev.op = "disconnect" /\ ev.second = "ok" /\ ev.res = "ok"
  /\ undoCalls = 1 /\ closeCalls = 1

\* At most one disconnect call is inside the locked body, and it owns the lock.
MutualExclusion ==
  /\ Cardinality({p \in Procs : InBody(p)}) <= 1
  /\ \A p \in Procs : InBody(p) => lock_owner = p

\* C4 as stated: at most one disconnect call is inside the locked body at a
\* time, the teardown callback is invoked at most once and Account.disconnect
\* is called at most once on the current Account.
C4_AsStated ==
  /\ MutualExclusion
  /\ undoCalls <= 1
  /\ account # None => discCalls[account] <= 1

\* C4 amended: at most one disconnect call is inside the locked body at a
\* time; Account.disconnect is in flight only on an Account that reports
\* connected; a callback invocation that returns clears the reference, and
\* once the reference is cleared the callback is never invoked again (it is
\* invoked a second time only after an invocation that raised).
C4_DisconnectExclusive ==
  /\ [](/\ MutualExclusion
        /\ \A p \in Procs : pc[p] = "disc_account" => connected[hnd[p]]
        /\ (ev.op = "disconnect" /\ ev.res = "ok"
            /\ "undo_listener" \in ev.acts) => ~undo_listener)
  /\ [][~undo_listener => (~undo_listener' /\ undoCalls' = undoCalls)]_vars

\* One disconnect call is suspended in session.close inside the body while
\* another waits for the lock.
C4_Witness ==
  \E p, q \in Procs : pc[p] = "disc_close" /\ pc[q] = "disc_wait"

\* C5 as stated: while a disconnect call stays inside its locked body no
\* login or verify_mfa call replaces the Account, starts, or changes logged_in.
C5_AsStated ==
  [][(lock_owner # None /\ lock_owner' = lock_owner
      /\ ev'.op # "save_session") =>
       /\ account' = account
       /\ logged_in' = logged_in
       /\ \A q \in Procs :
            pc'[q] \in {"login_connect", "verify_mfa"} => pc'[q] = pc[q]]_vars

\* C5 amended: the lock serializes disconnect against other disconnect calls
\* only.  It is held and awaited by disconnect calls alone, and login and
\* verify_mfa never wait for it: whenever a task is idle it can start login,
\* and a suspended login or verify_mfa can complete, lock held or not.
C5_LockOnlyDisconnect ==
  /\ lock_owner # None => InBody(lock_owner)
  /\ \A i \in 1..Len(waiters) : pc[waiters[i]] = "disc_wait"
  /\ \A q \in Procs :
       /\ (pc[q] = "idle" /\ calls < MaxCalls /\ created < MaxHandles)
            => ENABLED LoginCall(q)
       /\ (pc[q] = "idle" /\ calls < MaxCalls) => ENABLED VerifyCall(q)
       /\ pc[q] = "login_connect" => ENABLED LoginConnectOk(q)
       /\ pc[q] = "verify_mfa" => ENABLED VerifyOk(q)

\* A login call has just returned, installing its Account and setting
\* logged_in, while a disconnect call is inside the locked body.
C5_Witness ==
  /\ ev.op = "login" /\ ev.res = "ok" /\ account = ev.h
  /\ lock_owner # None /\ InBody(lock_owner)

\* C6 as stated: session.close is invoked at most once, a disconnect call
\* that completes its body leaves the session closed, and a closed session is
\* never open again.
C6_AsStated ==
  /\ [](/\ closeCalls <= 1
        /\ (ev.op = "disconnect" /\ ev.res = "ok") => session_closed)
  /\ [][session_closed => session_closed']_vars

\* C6 amended: session.close is in flight only on an open session; a
\* disconnect call that completes its body leaves the session closed; and
\* once the session is closed it is never open again and session.close is
\* never invoked again (it is invoked a second time only after an invocation
\* that raised and left the session open).
C6_SessionClosedOnce ==
  /\ [](/\ \A p \in Procs : pc[p] = "disc_close" => ~session_closed
        /\ (ev.op = "disconnect" /\ ev.res = "ok") => session_closed)
  /\ [][session_closed =>
          (session_closed' /\ closeCalls' = closeCalls)]_vars

\* A disconnect call returned on a session an earlier call had closed,
\* without invoking session.close again.
C6_Witness ==
  /\ ev.op = "disconnect" /\ ev.res = "ok" /\ session_closed
  /\ "session.close" \notin ev.acts /\ closeCalls = 1

\* C7: a login call whose connect raised raises the same kind; it logs one
\* error for an authentication failure, one for an API/network failure
\* (VivintSkyApiError, ClientResponseError, ClientConnectorError) and none
\* for MFA-required or any other exception; and a login call returns only
\* true and only after its connect returned.
C7_LoginErrors ==
  /\ (ev.op = "login" /\ ev.res = "raise") =>
       /\ ev.kind = ev.at
       /\ ev.log = CASE ev.at = "Authentication" -> <<"Invalid credentials">>
                     [] ev.at \in {"ApiError", "ClientResponseError",
                                   "ClientConnectorError"}
                          -> <<"Unable to connect to the Vivint API">>
                     [] OTHER -> <<>>
  /\ (ev.op = "login" /\ ev.res = "ok") =>
       (ev.ret = TRUE /\ ev.log = <<>> /\ authed[ev.h])

\* connect raised MFA-required and login raised it on, logging nothing.
C7_Witness ==
  ev.op = "login" /\ ev.res = "raise" /\ ev.kind = "MfaRequired"

\* C8 as stated: after a disconnect call returns (here: one no login or
\* verify_mfa call overlapped), no Account constructed by an earlier login is
\* still connected.
C8_AsStated ==
  (ev.op = "disconnect" /\ ev.res = "ok" /\ ~ev.ovl) =>
    \A h \in 1..created : ~connected[h]

\* A step of a polling tick: the update function is called, or refresh ends.
TickStep ==
  \/ \E p \in Procs : (pc[p] = "refresh") # (pc'[p] = "refresh")
  \/ ev'.op = "tick" /\ calls' # calls

\* C9: the update function calls refresh on the Account the hub holds when
\* the tick runs (the one the most recent login call constructed), returns
\* what refresh returns and raises what refresh raises, and no step of a
\* tick changes logged_in, the Account reference, the session or the teardown
\* callback.
C9_TickRefresh ==
  /\ [](/\ (ev.op = "tick" /\ ev.res = "ok") => ev.ret = ev.at
        /\ (ev.op = "tick" /\ ev.res = "raise") => ev.kind = ev.at)
  /\ [][\A p \in Procs :
          (pc[p] = "idle" /\ pc'[p] = "refresh") =>
            (account # None /\ hnd'[p] = account /\ hnd'[p] = created)]_vars
  /\ [][TickStep =>
          UNCHANGED <<logged_in, account, session_closed, undo_listener>>]_vars

\* A tick returned the data refresh returned, on the second Account installed.
C9_Witness ==
  /\ ev.op = "tick" /\ ev.res = "ok" /\ ev.ret = "data"
  /\ ev.h = 2 /\ account = 2

\* C10 as stated: for every sub-device D, get_device_id(D) equals
\* get_device_id of its parent, and so do the identifiers of the device-info
\* record of an entity constructed for D; two devices with the same
\* parent-or-self get the same identity tuple.
C10_AsStated ==
  LET Eff(i) == IF is_subdevice(devices[i]) THEN devices[i].parent ELSE i IN
  /\ (idq.device # None /\ is_subdevice(devices[idq.device])) =>
       idq.result = get_device_id(devices, devices[idq.device].parent)
  /\ (ent.device # None /\ is_subdevice(devices[ent.device])) =>
       ent.device_info.identifiers
         = {get_device_id(devices, devices[ent.device].parent)}
  /\ \A j \in 1..MaxDevices :
       /\ (idq.device # None /\ Eff(j) = Eff(idq.device)) =>
            idq.result = get_device_id(devices, j)
       /\ (ent.device # None /\ Eff(j) = Eff(ent.device)) =>
            ent.device_info.identifiers = {get_device_id(devices, j)}

\* C10: for every sub-device D, the identifiers of the device-info record of
\* an entity constructed for D are the identity tuple of D.parent, and so two
\* entities whose devices share the parent-or-self get the same identifiers.
\* get_device_id(D) itself is D's own panel_id joined to the parent's id: it
\* equals get_device_id(D.parent), and the tuple of any device with the same
\* parent-or-self, exactly when the two devices carry the same panel_id.
C10_SubdeviceIdentity ==
  LET Eff(i) == IF is_subdevice(devices[i]) THEN devices[i].parent ELSE i
      Tuple(pid, id) == <<VIVINT_DOMAIN, Str(pid) \o <<"-">> \o Str(id)>>
  IN
  /\ idq.device # None =>
       LET D == devices[idq.device] IN
       /\ idq.result = Tuple(D.panel_id, devices[Eff(idq.device)].id)
       /\ is_subdevice(D) =>
            ((idq.result = get_device_id(devices, D.parent))
               <=> (D.panel_id = devices[D.parent].panel_id))
       /\ \A j \in 1..MaxDevices :
            Eff(j) = Eff(idq.device) =>
              ((idq.result = get_device_id(devices, j))
                 <=> (D.panel_id = devices[j].panel_id))
  /\ ent.device # None =>
       LET P == devices[Eff(ent.device)] IN
       /\ ent.device_info.identifiers = {Tuple(P.panel_id, P.id)}
       /\ is_subdevice(devices[ent.device]) =>
            ent.device_info.identifiers
              = {get_device_id(devices, devices[ent.device].parent)}
       /\ \A j \in 1..MaxDevices :
            Eff(j) = Eff(ent.device) =>
              ent.device_info.identifiers = DeviceInfo(devices, j).identifiers

\* get_device_id was asked for a sub-device whose panel_id and id both differ
\* from its parent's, so that its tuple is not the parent's, and an entity
\* constructed for that sub-device carries the parent's tuple.
C10_Witness ==
  /\ idq.device # None /\ is_subdevice(devices[idq.device])
  /\ devices[idq.device].id # devices[devices[idq.device].parent].id
  /\ devices[idq.device].panel_id
       # devices[devices[idq.device].parent].panel_id
  /\ idq.result # get_device_id(devices, devices[idq.device].parent)
  /\ ent.device = idq.device
  /\ ent.device_info.identifiers
       = {get_device_id(devices, devices[ent.device].parent)}

\* get_device_id was asked for a sub-device that carries its parent's
\* panel_id, and returned the parent's tuple.
C10_WitnessSamePanel ==
  /\ idq.device # None /\ is_subdevice(devices[idq.device])
  /\ devices[idq.device].id # devices[devices[idq.device].parent].id
  /\ devices[idq.device].panel_id
       = devices[devices[idq.device].parent].panel_id
  /\ idq.result = get_device_id(devices, devices[idq.device].parent)

\* C11 as stated: false on an empty or unset table, false when the category
\* is present without the capability, true in every other case.
C11_AsStated ==
  capq.fn = "has_capability" =>
    LET c == capdev.capabilities IN
    capq.result =
      (IF c.isNone \/ DOMAIN c.val = {} THEN FALSE
       ELSE IF capq.category \in DOMAIN c.val
               /\ capq.capability \notin c.val[capq.category] THEN FALSE
       ELSE TRUE)

\* C11: has_capability returns true exactly when the device's capability
\* table is set, holds the category, and the category's values hold the
\* capability; it returns false in every other case, a category missing from
\* a non-empty table included.
C11_HasCapability ==
  capq.fn = "has_capability" =>
    LET c == capdev.capabilities IN
    /\ capq.result \in BOOLEAN
    /\ capq.result <=>
         /\ ~c.isNone
         /\ capq.category \in DOMAIN c.val
         /\ capq.capability \in c.val[capq.category]
    /\ (~c.isNone /\ DOMAIN c.val # {} /\ capq.category \notin DOMAIN c.val)
         => capq.result = FALSE

\* A query for a category missing from a non-empty table, and answered false.
C11_Witness ==
  /\ capq.fn = "has_capability"
  /\ ~capdev.capabilities.isNone
  /\ DOMAIN capdev.capabilities.val # {}
  /\ capq.category \notin DOMAIN capdev.capabilities.val
  /\ capq.result = FALSE

\* The device object an entity's device-info record describes: the parent of
\* a sub-device, else the device itself.
Effective(devs, i) == IF devs[i].parent # None THEN devs[i].parent ELSE i

\* C12: in the device-info record built by either constructor, via_device is
\* unset exactly when the effective device is the alarm panel; otherwise it is
\* the identity tuple of the panel that owns the effective device.
C12_ViaDevice ==
  ent.cls # "none" =>
    LET device == devices[Effective(devices, ent.device)] IN
    /\ (ent.device_info.via_device = <<>>) <=> device.is_panel
    /\ ~device.is_panel =>
         LET panel == devices[device.alarm_panel] IN
         /\ panel.is_panel
         /\ ent.device_info.via_device =
              <<VIVINT_DOMAIN, Str(panel.panel_id) \o <<"-">> \o Str(panel.id)>>

\* A VivintEntity on a sub-device whose record links to the panel, and not to
\* the parent the record describes.
C12_Witness ==
  /\ ent.cls = "VivintEntity"
  /\ devices[ent.device].parent # None
  /\ ent.device_info.via_device # <<>>
  /\ ent.device_info.via_device \notin ent.device_info.identifiers
  /\ ent.device_info.via_device = get_device_id(devices, 1)

\* C13: the device-info record of an entity stays the record built at
\* construction through every change of the devices, UPDATE notification and
\* polling tick, while the name of a VivintEntity is its device's current
\* name.
C13_RecordFrozenNameLive ==
  /\ ent.cls # "none" => ent.device_info = ent.snapshot
  /\ eev.op = "name" => eev.result = devices[eev.device].name

\* An active VivintEntity that has seen a notification and a polling tick,
\* whose device changed its name since construction: the name read is the new
\* one, the record still carries the old one.
C13_Witness ==
  /\ ent.cls = "VivintEntity" /\ ent.state = "added"
  /\ changes > 0 /\ ent.refreshes > 0 /\ calls > 1
  /\ eev.op = "name" /\ eev.device = ent.device
  /\ eev.result # ent.device_info.name
  /\ DeviceInfo(devices, ent.device) # ent.device_info
  /\ ent.device_info = ent.snapshot

\* The refreshes an UPDATE notification of device object d owes the entity.
Owed(d) == IF ent.state = "added" /\ d = ent.device THEN 1 ELSE 0

\* C14: the entity's UPDATE callback is on its device exactly from activation
\* to removal; every notification of that device in between makes exactly one
\* display refresh, whether or not a polling tick is in flight; notifications
\* before activation, after removal or of another device make none; and no
\* other step makes a refresh on the notification's behalf.
C14_UpdateSubscription ==
  /\ [](ent.state = "added" =>
          listeners = [NoListeners EXCEPT ![ent.device] = 1])
  /\ [](ent.state # "added" => listeners = NoListeners)
  /\ [](eev.op = "update" => eev.refreshes = Owed(eev.device))
  /\ [][notes' # notes =>
          (eev'.op = "update" /\
           ent'.refreshes = ent.refreshes + Owed(eev'.device))]_vars
  /\ [][(notes' = notes /\ ent'.state \notin {"new", "none"}) =>
          ent'.refreshes = ent.refreshes]_vars

\* Two notifications reached an active entity, the second while a polling
\* tick was waiting for refresh, and each made one display refresh.
C14_Witness ==
  /\ ent.state = "added"
  /\ eev.op = "update" /\ eev.device = ent.device /\ eev.refreshes = 1
  /\ ent.refreshes = 2
  /\ \E p \in Procs : pc[p] = "refresh"

\* A notification after removal, which made no display refresh.
C14_WitnessRemoved ==
  /\ ent.state = "removed"
  /\ eev.op = "update" /\ eev.device = ent.device /\ eev.refreshes = 0
  /\ ent.refreshes = 1

\* C15: logged_in is true only if connect or verify_mfa has returned on the
\* Account the hub currently holds.
C15_AsStated ==
  logged_in => (account # None /\ authed[account])

\* C16 as stated: once login has been called, a disconnect call that returns
\* normally leaves the current Account not connected, the session closed and
\* the callback reference cleared; before any login a disconnect call raises
\* and closes nothing.
C16_AsStated ==
  /\ (ev.op = "disconnect" /\ ev.res = "ok") =>
       /\ account # None
       /\ ~connected[account]
       /\ session_closed
       /\ ~undo_listener
  /\ (ev.op = "disconnect" /\ account = None) =>
       /\ ev.res = "raise"
       /\ ev.acts = {}

\* C16: a disconnect call that returns normally leaves the session closed and
\* the callback reference cleared, the callback having been invoked at most
\* once by the call, and, when no login or verify_mfa call overlapped it, the
\* current Account not connected; a disconnect call before any login raises
\* AttributeError with nothing invoked, nothing closed, the lock free.
C16_DisconnectPost ==
  /\ []((ev.op = "disconnect" /\ ev.res = "ok") =>
          (account # None /\ session_closed /\ ~undo_listener))
  /\ []((ev.op = "disconnect" /\ ev.res = "ok" /\ ~ev.ovl) =>
          ~connected[account])
  /\ []((ev.op = "disconnect" /\ account = None) =>
          (ev.res = "raise" /\ ev.kind = "AttributeError" /\ ev.acts = {}
           /\ ~session_closed /\ closeCalls = 0 /\ undoCalls = 0
           /\ lock_owner = None))
  /\ [][undoCalls' # undoCalls =>
          (undoCalls' = undoCalls + 1 /\ ev'.op = "disconnect"
           /\ "undo_listener" \in ev'.acts)]_vars

\* A disconnect call after a login whose connect raised: nothing to
\* disconnect, the session is closed and the callback invoked and cleared.
C16_Witness ==
  /\ ev.op = "disconnect" /\ ev.res = "ok" /\ ~ev.ovl
  /\ account # None /\ ~authed[account] /\ ~connected[account]
  /\ ev.acts = {"session.close", "undo_listener"}
  /\ session_closed /\ ~undo_listener /\ undoCalls = 1

\* A disconnect call on a hub that never saw a login: it raised.
C16_WitnessNoAccount ==
  /\ ev.op = "disconnect" /\ account = None
  /\ ev.res = "raise" /\ ~session_closed

\* A step of a disconnect call: a task enters, moves within or leaves the
\* call, or the call starts and ends in the one step.
DisconnectStep ==
  \/ \E p \in Procs :
       /\ pc'[p] # pc[p]
       /\ {pc[p], pc'[p]} \cap {"disc_wait", "disc_account", "disc_close"} # {}
  \/ ev'.op = "disconnect" /\ calls' # calls

\* C17 as stated: after a disconnect call, ended normally or by an
\* exception, logged_in and the Account reference have the values they had
\* when the call started.
C17_AsStated ==
  ev.op = "disconnect" =>
    (logged_in = ev.entry.logged_in /\ account = ev.entry.account)

\* C17: no step of a disconnect call, whether the call ends normally or with
\* an exception, changes logged_in or the Account reference; logged_in falls
\* from true to false only in the step that starts a login call, and the
\* Account reference changes only there; and after a disconnect call that no
\* login, verify_mfa or save_session call overlapped, logged_in and the
\* Account reference have the values they had when the call started.
C17_DisconnectFrame ==
  /\ [][DisconnectStep => (logged_in' = logged_in /\ account' = account)]_vars
  /\ [][(logged_in /\ ~logged_in') =>
          (created' = created + 1 /\ account' = created')]_vars
  /\ [][account' # account => created' = created + 1]_vars
  /\ []((ev.op = "disconnect" /\ ~ev.ovl /\ ~ev.entry.saved) =>
          (logged_in = ev.entry.logged_in /\ account = ev.entry.account))

\* A logged-in hub after a disconnect call that nothing overlapped and that
\* disconnected its Account and closed the session: logged_in is still true
\* and the Account is still held, as when the call started.
C17_Witness ==
  /\ ev.op = "disconnect" /\ ev.res = "ok"
  /\ ~ev.ovl /\ ~ev.entry.saved
  /\ {"account.disconnect", "session.close"} \subseteq ev.acts
  /\ ev.entry.logged_in /\ ev.entry.account = account
  /\ logged_in /\ account # None /\ ~connected[account] /\ session_closed

\* The same after a disconnect call that ended with an exception.
C17_WitnessRaise ==
  /\ ev.op = "disconnect" /\ ev.res = "raise"
  /\ ~ev.ovl /\ ~ev.entry.saved
  /\ ev.entry.logged_in /\ ev.entry.account = account
  /\ logged_in /\ account # None

\* A disconnect call started on a logged-in hub and ended after a login call
\* that started while it ran: the flag is reset and the Account replaced.
C17_WitnessOverlap ==
  /\ ev.op = "disconnect" /\ ev.ovl
  /\ ev.entry.logged_in /\ ~logged_in
  /\ ev.entry.account # None /\ account # ev.entry.account

\* A disconnect call started on a hub that was not logged in and ended after
\* a save_session call made while it ran: the flag is set.
C17_WitnessSaved ==
  /\ ev.op = "disconnect" /\ ~ev.ovl /\ ev.entry.saved
  /\ ~ev.entry.logged_in /\ logged_in

\* C18: whenever a disconnect call ends, by return or by an exception of
\* Account.disconnect, session.close or the callback, the lock is free; only
\* a task inside the body holds the lock; under fair scheduling no task waits
\* for the lock forever and no task stays in a disconnect call forever (each
\* waiter enters the body, each call ends); and a
\* call ended by an exception of Account.disconnect (the call raises out of
\* that await without having invoked the callback) has not touched the
\* session or the callback, one ended by an exception of session.close has
\* not touched the callback.
C18_LockReleased ==
  /\ [](ev.op = "disconnect" => lock_owner = None)
  /\ [](lock_owner # None => InBody(lock_owner))
  /\ \A p \in Procs : []<>(pc[p] # "disc_wait")
  /\ \A p \in Procs : []<>(pc[p] # "disc_wait" /\ ~InBody(p))
  /\ [][\A p \in Procs :
          (pc[p] = "disc_account" /\ pc'[p] = "idle" /\ ev'.res = "raise"
           /\ undoCalls' = undoCalls) =>
            /\ ev'.acts = {"account.disconnect"}
            /\ UNCHANGED <<session_closed, undo_listener, closeCalls>>]_vars
  /\ [][\A p \in Procs :
          (pc[p] = "disc_close" /\ pc'[p] = "idle" /\ ev'.res = "raise"
           /\ undoCalls' = undoCalls) =>
            /\ "undo_listener" \notin ev'.acts
            /\ UNCHANGED undo_listener]_vars

\* A disconnect call has just been ended by an exception while another task
\* waits for the lock: the lock is free for it.
C18_Witness ==
  /\ ev.op = "disconnect" /\ ev.res = "raise" /\ ev.kind # "AttributeError"
  /\ waiters # <<>>
  /\ pc[Head(waiters)] = "disc_wait"
  /\ lock_owner = None

====
